---- MODULE Spec2Model ----
(***************************************************************************)
(* A model of flytekit's FlyteFile / FlyteFilePathTransformer              *)
(* (flytekit/types/file/file.py) and of the handler registry of the        *)
(* StructuredDatasetTransformer                                            *)
(* (flytekit/types/structured/structured_dataset.py).                      *)
(*                                                                         *)
(* Python values are records carrying a "tag".  A str that is used as a    *)
(* path is split into its URI scheme and the rest ("s3://b/k" is scheme    *)
(* "s3", rest "b/k"; a plain filesystem path has scheme "").               *)
(***************************************************************************)
EXTENDS Integers, Sequences, FiniteSets, TLC

VARIABLES
    ff,        \* the FlyteFile instance under observation (NoneV before one exists)
    hist,      \* history of that instance: calls of __fspath__ / trigger_download
    minted,    \* how many random paths file_access has handed out so far
    op,        \* the last operation called, with its arguments
    ret,       \* what that operation returned or raised
    calls,     \* the collaborator calls that operation made, in order
    DATASET_RETRIEVAL_HANDLERS,
    DATASET_PERSISTENCE_HANDLERS,
    DATASET_ENCODING_HANDLERS,
    DATASET_DECODING_HANDLERS,
    REGISTER_TYPES,   \* StructuredDatasetTransformer._REGISTER_TYPES (a list)
    overridden,       \* TypeEngine.override_transformer calls so far (a list of types)
    registrations,    \* number of register_handler calls so far
    threads    \* the threads inside __fspath__ of the instance: where each one is

fileVars == <<ff, hist, minted>>
dsVars == <<DATASET_RETRIEVAL_HANDLERS, DATASET_PERSISTENCE_HANDLERS,
            DATASET_ENCODING_HANDLERS, DATASET_DECODING_HANDLERS,
            REGISTER_TYPES, overridden, registrations>>
vars == <<ff, hist, minted, op, ret, calls,
          DATASET_RETRIEVAL_HANDLERS, DATASET_PERSISTENCE_HANDLERS,
          DATASET_ENCODING_HANDLERS, DATASET_DECODING_HANDLERS,
          REGISTER_TYPES, overridden, registrations, threads>>

\* ------------------------------------------------------------------ bounds
MaxMint == 1        \* random paths handed out in one behaviour
MaxDeref == 2       \* __fspath__ calls on one instance
MaxTrigger == 1     \* trigger_download calls on one instance
MaxRegister == 3    \* register_handler calls in one behaviour
NThreads == 2       \* threads dereferencing one instance at the same time

\* ------------------------------------------------------------ Python values
NoneV == [tag |-> "None"]
FalseV == [tag |-> "False"]
Str(scheme, rest) == [tag |-> "str", scheme |-> scheme, rest |-> rest]
EmptyStr == Str("", "")
OtherV == [tag |-> "int", value |-> 5]

\* str(pathlib.Path(s)): pathlib collapses the "//" of a URI, so the path
\* object of "s3://b/k" is the relative filesystem path "s3:/b/k".
PathText(s) == IF s.scheme = "" THEN s.rest ELSE s.scheme \o ":/" \o s.rest
PathOf(s) == [tag |-> "Path", rest |-> PathText(s)]
StrOfPath(p) == Str("", p.rest)

\* The strings used as inputs.
LocalFile == Str("", "/tmp/f")
NoSuchFile == Str("", "/no/such/file")
S3Uri == Str("s3", "b/k")
FileUri == Str("file", "/tmp/f")
HttpUri == Str("http", "h/x")
OtherBucket == Str("s3", "other-bucket/path")
PathStrings == {LocalFile, NoSuchFile, S3Uri, FileUri, HttpUri}

\* The regular files of the local filesystem.  The working directory holds a
\* file http:/h/x, so the str "http://h/x" names an existing file for pathlib.
RegularFiles == {"/tmp/f", "http:/h/x"}

\* pathlib.Path.is_file()
is_file(p) == p.rest \in RegularFiles

\* Declared / expected types.
FlyteFileType(ext) == [tag |-> "type", cls |-> "FlyteFile", ext |-> ext]
PathLikeType == [tag |-> "type", cls |-> "os.PathLike"]
PathlibPathType == [tag |-> "type", cls |-> "pathlib.Path"]
IntType == [tag |-> "type", cls |-> "int"]
FileTypes == {FlyteFileType("csv"), PathLikeType, PathlibPathType}

\* issubclass(t, pathlib.Path) or t is os.PathLike
IsPlainPathType(t) == t.cls \in {"pathlib.Path", "os.PathLike"}

\* ------------------------------------------------- results and collaborators
Return(v) == [tag |-> "return", value |-> v]
Raise(exc, site) == [tag |-> "raise", exc |-> exc, site |-> site]
Raised(r) == r.tag = "raise"
IOFailure == Raise("IOFailure", "file_access")

PutData(src, dst) == [fn |-> "put_data", src |-> src, dst |-> dst]
GetData(src, dst) == [fn |-> "get_data", src |-> src, dst |-> dst]
Call(callee) == [fn |-> "call", callee |-> callee]
Invocations(cs) == SelectSeq(cs, LAMBDA c : c.fn = "call")
Puts(cs) == SelectSeq(cs, LAMBDA c : c.fn = "put_data")
Gets(cs) == SelectSeq(cs, LAMBDA c : c.fn = "get_data")

\* ctx.file_access
RemoteSchemes == {"s3", "gs", "http", "https", "file"}
is_remote(s) == s.scheme \in RemoteSchemes
get_random_remote_path(n) == [tag |-> "str", scheme |-> "s3", rest |-> "random", n |-> n]
get_random_local_path(n) == [tag |-> "str", scheme |-> "", rest |-> "random", n |-> n]

\* ------------------------------------------------------------- FlyteFile
noop == [tag |-> "noop"]
UserDownloader == [tag |-> "callable"]
Downloader(uri, local_path) ==
    [tag |-> "_downloader", uri |-> uri, local_path |-> local_path]

\* A constructor that records a remote path as the remote source.
FlyteFileRecordingSource(ext, path, downloader, remote_path) ==
    [tag |-> "FlyteFile", ext |-> ext,
     _path |-> path, _downloader |-> downloader, _downloaded |-> FALSE,
     _remote_path |-> remote_path,
     _remote_source |-> IF is_remote(path) THEN path ELSE NoneV]

\* FlyteFile[ext](path, downloader, remote_path)
FlyteFile(ext, path, downloader, remote_path) ==
    [tag |-> "FlyteFile", ext |-> ext,
     _path |-> path, _downloader |-> downloader, _downloaded |-> FALSE,
     _remote_path |-> remote_path, _remote_source |-> NoneV]

NoHist == [fspath |-> 0, invoked |-> 0, raised |-> 0, trigger |-> 0]

\* Calling a downloader d: the call itself, then the collaborator calls its
\* body makes (_downloader calls get_data; noop and a user callable call
\* nothing of this model).
Invoke(d) ==
    <<Call(d)>> \o (IF d.tag = "_downloader" THEN <<GetData(d.uri, d.local_path)>>
                    ELSE <<>>)

\* Whether a call of the downloader may raise: noop never does.
MayRaise(d) == d # noop

\* __fspath__ that forgets to set the flag after the download.
fspathWithoutFlag(self, outcome) ==
    IF ~self._downloaded
    THEN [self |-> self,
          calls |-> Invoke(self._downloader),
          ret |-> IF outcome = "returns" THEN Return(self._path)
                  ELSE Raise("Exception", "downloader")]
    ELSE [self |-> self, calls |-> <<>>, ret |-> Return(self._path)]

\* __fspath__ that sets the flag before it calls the downloader.
fspathFlagFirst(self, outcome) ==
    IF ~self._downloaded
    THEN [self |-> [self EXCEPT !._downloaded = TRUE],
          calls |-> Invoke(self._downloader),
          ret |-> IF outcome = "returns" THEN Return(self._path)
                  ELSE Raise("Exception", "downloader")]
    ELSE [self |-> self, calls |-> <<>>, ret |-> Return(self._path)]

\* FlyteFile.__fspath__(self); outcome is what the downloader does if called.
fspath(self, outcome) ==
    IF ~self._downloaded
    THEN IF outcome = "returns"
         THEN [self |-> [self EXCEPT !._downloaded = TRUE],
               calls |-> Invoke(self._downloader),
               ret |-> Return(self._path)]
         ELSE [self |-> self,
               calls |-> Invoke(self._downloader),
               ret |-> Raise("Exception", "downloader")]
    ELSE [self |-> self, calls |-> <<>>, ret |-> Return(self._path)]

\* trigger_download that marks the file as downloaded.
triggerDownloadSettingFlag(self, outcome) ==
    IF self._downloader # noop
    THEN [self |-> IF outcome = "returns" THEN [self EXCEPT !._downloaded = TRUE]
                   ELSE self,
          calls |-> Invoke(self._downloader),
          ret |-> IF outcome = "returns" THEN Return(NoneV)
                  ELSE Raise("Exception", "downloader")]
    ELSE [self |-> self, calls |-> <<>>,
          ret |-> Raise("ValueError",
                        "Attempting to trigger download on non-downloadable file")]

\* FlyteFile.trigger_download(self)
trigger_download(self, outcome) ==
    IF self._downloader # noop
    THEN [self |-> self,
          calls |-> Invoke(self._downloader),
          ret |-> IF outcome = "returns" THEN Return(NoneV)
                  ELSE Raise("Exception", "downloader")]
    ELSE [self |-> self, calls |-> <<>>,
          ret |-> Raise("ValueError",
                        "Attempting to trigger download on non-downloadable file")]

\* FlyteFilePathTransformer.get_format: t.extension(); only FlyteFile classes
\* have that classmethod.
HasExtension(t) == t.cls = "FlyteFile"
get_format(t) == t.ext

Blob(fmt, uri) == [tag |-> "Literal", format |-> fmt, uri |-> uri]

\* Upload with the explicit destination dropped: always a random path.
UploadIgnoringDestination(should_upload, remote_path, source_path, fmt, m, io) ==
    IF should_upload
    THEN [ret |-> IF io = "ok" THEN Return(Blob(fmt, get_random_remote_path(m + 1)))
                  ELSE IOFailure,
          calls |-> <<PutData(source_path, get_random_remote_path(m + 1))>>,
          minted |-> m + 1]
    ELSE [ret |-> Return(Blob(fmt, source_path)), calls |-> <<>>, minted |-> m]

\* The tail of to_literal, from "if should_upload:".  io is what the storage
\* collaborator does with a put_data call: "ok" or "fail".
Upload(should_upload, remote_path, source_path, fmt, m, io) ==
    IF should_upload
    THEN LET mint == remote_path = NoneV
             dest == IF mint THEN get_random_remote_path(m + 1) ELSE remote_path
         IN  [ret |-> IF io = "ok" THEN Return(Blob(fmt, dest)) ELSE IOFailure,
              calls |-> <<PutData(source_path, dest)>>,
              minted |-> IF mint THEN m + 1 ELSE m]
    ELSE [ret |-> Return(Blob(fmt, source_path)), calls |-> <<>>, minted |-> m]

\* python_val.remote_path or None
OrNone(v) == IF v \in {NoneV, FalseV, EmptyStr} THEN NoneV ELSE v

\* FlyteFilePathTransformer.to_literal(ctx, python_val, python_type, expected)
to_literal(python_val, python_type, m, io) ==
    LET fail(r) == [ret |-> r, calls |-> <<>>, minted |-> m]
    IN
    IF python_val = NoneV
    THEN fail(Raise("AssertionError", "None value cannot be converted to a file."))
    ELSE IF ~HasExtension(python_type)
    THEN fail(Raise("AttributeError", "extension"))
    ELSE LET fmt == get_format(python_type) IN
    IF python_val.tag = "FlyteFile"
    THEN IF python_val._remote_source # NoneV
         THEN [ret |-> Return(Blob(fmt, python_val._remote_source)),
               calls |-> <<>>, minted |-> m]
         ELSE LET source_path == python_val._path
                  should_upload ==
                      /\ ~(python_val._remote_path = FalseV \/ is_remote(source_path))
                      /\ ~IsPlainPathType(python_type)
              IN  Upload(should_upload, OrNone(python_val._remote_path),
                         source_path, fmt, m, io)
    ELSE IF python_val.tag = "Path"
    THEN IF ~is_file(python_val)
         THEN fail(Raise("ValueError", "not a file"))
         ELSE LET source_path == StrOfPath(python_val)
                  should_upload ==
                      ~(is_remote(source_path) \/ IsPlainPathType(python_type))
              IN  Upload(should_upload, NoneV, source_path, fmt, m, io)
    ELSE IF python_val.tag = "str"
    THEN IF ~is_file(PathOf(python_val))
         THEN fail(Raise("ValueError", "not a file"))
         ELSE LET source_path == python_val
                  should_upload ==
                      ~(is_remote(source_path) \/ IsPlainPathType(python_type))
              IN  Upload(should_upload, NoneV, source_path, fmt, m, io)
    ELSE fail(Raise("AssertionError", "Expected FlyteFile or os.PathLike object"))

\* to_python_value that fetches the remote file at once instead of binding a
\* downloader to the returned FlyteFile.
toPythonValueEager(lv, expected_python_type, m) ==
    LET uri == lv.uri
        done(r) == [ret |-> r, calls |-> <<>>, minted |-> m]
    IN
    IF expected_python_type.cls = "os.PathLike"
    THEN done(Raise("TypeError", "PathLike() takes no arguments"))
    ELSE IF expected_python_type.cls = "pathlib.Path"
    THEN done(Return(PathOf(uri)))
    ELSE IF expected_python_type.cls # "FlyteFile"
    THEN done(Raise("TypeError", "None of os.PathLike, pathlib.Path, or FlyteFile specified"))
    ELSE IF ~is_remote(uri)
    THEN done(Return(FlyteFile(expected_python_type.ext, uri, noop, NoneV)))
    ELSE LET local_path == get_random_local_path(m + 1)
             made == FlyteFile(expected_python_type.ext, local_path, noop, NoneV)
         IN  [ret |-> Return([made EXCEPT !._remote_source = uri]),
              calls |-> <<GetData(uri, local_path)>>,
              minted |-> m + 1]

\* FlyteFilePathTransformer.to_python_value(ctx, lv, expected_python_type)
to_python_value(lv, expected_python_type, m) ==
    LET uri == lv.uri
        done(r) == [ret |-> r, calls |-> <<>>, minted |-> m]
    IN
    IF expected_python_type.cls = "os.PathLike"
    THEN done(Raise("TypeError", "PathLike() takes no arguments"))
    ELSE IF expected_python_type.cls = "pathlib.Path"
    THEN done(Return(PathOf(uri)))
    ELSE IF expected_python_type.cls # "FlyteFile"
    THEN done(Raise("TypeError", "None of os.PathLike, pathlib.Path, or FlyteFile specified"))
    ELSE IF ~is_remote(uri)
    THEN done(Return(FlyteFile(expected_python_type.ext, uri, noop, NoneV)))
    ELSE LET local_path == get_random_local_path(m + 1)
             expected_format == get_format(expected_python_type)
             made == FlyteFile(expected_format, local_path, Downloader(uri, local_path), NoneV)
         IN  [ret |-> Return([made EXCEPT !._remote_source = uri]),
              calls |-> <<>>,
              minted |-> m + 1]

\* ------------------------------------------- StructuredDatasetTransformer
\* The types handlers are registered for: a DatasetFormat member, the
\* intermediate format and a dataframe type.
PARQUET == "DatasetFormat.PARQUET"
PaTable == "pa.Table"
PdDataFrame == "pd.DataFrame"

\* StructuredDatasetTransformer._get_intermediate_format
_get_intermediate_format == PaTable

\* Handler instances: the abstract base classes each one inherits from.
Handler(id, bases) == [tag |-> "handler", id |-> id, bases |-> bases]
r1 == Handler("r1", {"DatasetRetrievalHandler"})
r2 == Handler("r2", {"DatasetRetrievalHandler"})
p1 == Handler("p1", {"DatasetPersistenceHandler"})
e1 == Handler("e1", {"DatasetEncodingHandler"})
d1 == Handler("d1", {"DatasetDecodingHandler"})
notAHandler == Handler("x", {})

EmptyDict == [k \in {} |-> NoneV]

\* SetItem that keeps a handler already registered under the key.
SetItemKeepFirst(registry, from_type, to_type, h) ==
    [k \in DOMAIN registry \cup {<<from_type, to_type>>} |->
        IF k \in DOMAIN registry THEN registry[k] ELSE h]

\* registry[from_type][to_type] = h, creating registry[from_type] if needed
SetItem(registry, from_type, to_type, h) ==
    [k \in DOMAIN registry \cup {<<from_type, to_type>>} |->
        IF k = <<from_type, to_type>> THEN h ELSE registry[k]]

\* StructuredDatasetTransformer._get_handler(from_type, to_type, handler)
_get_handler(from_type, to_type, handler) ==
    IF \A k \in DOMAIN handler : k[1] # from_type
    THEN NoneV
    ELSE IF <<from_type, to_type>> \notin DOMAIN handler
    THEN NoneV
    ELSE handler[<<from_type, to_type>>]

\* What the handlers hand back; the transformer treats it as opaque.
Retrieved(h, uri) == [tag |-> "retrieved", by |-> h.id, of |-> uri]
Decoded(h, table) == [tag |-> "decoded", by |-> h.id, of |-> table]
Encoded(h, df) == [tag |-> "encoded", by |-> h.id, of |-> df]
HandlerCall(fn, h, args) == [fn |-> fn, h |-> h.id, args |-> args]
HandlerError == Raise("Exception", "handler")

\* download that tries the two-hop path before the direct handler.
downloadTwoHopFirst(from_type, to_type, uri, failing) ==
    LET direct == _get_handler(from_type, to_type, DATASET_RETRIEVAL_HANDLERS)
        retrieve_handler == _get_handler(from_type, _get_intermediate_format,
                                         DATASET_RETRIEVAL_HANDLERS)
        decoding_handler == _get_handler(_get_intermediate_format, to_type,
                                         DATASET_DECODING_HANDLERS)
    IN
    IF retrieve_handler # NoneV /\ decoding_handler # NoneV
    THEN LET table == Retrieved(retrieve_handler, uri) IN
         IF failing = 1
         THEN [calls |-> <<HandlerCall("retrieve", retrieve_handler, <<uri>>)>>,
               ret |-> HandlerError]
         ELSE [calls |-> <<HandlerCall("retrieve", retrieve_handler, <<uri>>),
                           HandlerCall("decode", decoding_handler, <<table>>)>>,
               ret |-> IF failing = 2 THEN HandlerError
                       ELSE Return(Decoded(decoding_handler, table))]
    ELSE IF direct # NoneV
    THEN [calls |-> <<HandlerCall("retrieve", direct, <<uri>>)>>,
          ret |-> IF failing = 1 THEN HandlerError
                  ELSE Return(Retrieved(direct, uri))]
    ELSE [calls |-> <<>>,
          ret |-> Raise("ValueError", "Not yet implemented download data")]

\* StructuredDatasetTransformer.download(from_type, to_type, uri); failing is
\* the index of the handler call that raises, 0 when none does.
download(from_type, to_type, uri, failing) ==
    LET direct == _get_handler(from_type, to_type, DATASET_RETRIEVAL_HANDLERS)
        retrieve_handler == _get_handler(from_type, _get_intermediate_format,
                                         DATASET_RETRIEVAL_HANDLERS)
        decoding_handler == _get_handler(_get_intermediate_format, to_type,
                                         DATASET_DECODING_HANDLERS)
    IN
    IF direct # NoneV
    THEN [calls |-> <<HandlerCall("retrieve", direct, <<uri>>)>>,
          ret |-> IF failing = 1 THEN HandlerError
                  ELSE Return(Retrieved(direct, uri))]
    ELSE IF retrieve_handler # NoneV /\ decoding_handler # NoneV
    THEN LET table == Retrieved(retrieve_handler, uri) IN
         IF failing = 1
         THEN [calls |-> <<HandlerCall("retrieve", retrieve_handler, <<uri>>)>>,
               ret |-> HandlerError]
         ELSE [calls |-> <<HandlerCall("retrieve", retrieve_handler, <<uri>>),
                           HandlerCall("decode", decoding_handler, <<table>>)>>,
               ret |-> IF failing = 2 THEN HandlerError
                       ELSE Return(Decoded(decoding_handler, table))]
    ELSE [calls |-> <<>>,
          ret |-> Raise("ValueError", "Not yet implemented download data")]

\* upload that runs the encoder before it looks for the persistence handler.
uploadEncodeFirst(from_type, to_type, uri, df, failing) ==
    LET direct == _get_handler(from_type, to_type, DATASET_PERSISTENCE_HANDLERS)
        encoding_handler == _get_handler(from_type, _get_intermediate_format,
                                         DATASET_ENCODING_HANDLERS)
        persist_handler == _get_handler(_get_intermediate_format, to_type,
                                        DATASET_PERSISTENCE_HANDLERS)
    IN
    IF direct # NoneV
    THEN [calls |-> <<HandlerCall("persist", direct, <<df, uri>>)>>,
          ret |-> IF failing = 1 THEN HandlerError ELSE Return(NoneV)]
    ELSE IF encoding_handler # NoneV
    THEN LET table == Encoded(encoding_handler, df) IN
         IF failing = 1
         THEN [calls |-> <<HandlerCall("encode", encoding_handler, <<df>>)>>,
               ret |-> HandlerError]
         ELSE IF persist_handler = NoneV
         THEN [calls |-> <<HandlerCall("encode", encoding_handler, <<df>>)>>,
               ret |-> Raise("NotImplementedError", "Not yet implemented upload data")]
         ELSE [calls |-> <<HandlerCall("encode", encoding_handler, <<df>>),
                           HandlerCall("persist", persist_handler, <<table, uri>>)>>,
               ret |-> IF failing = 2 THEN HandlerError ELSE Return(NoneV)]
    ELSE [calls |-> <<>>,
          ret |-> Raise("NotImplementedError", "Not yet implemented upload data")]

\* StructuredDatasetTransformer.upload(from_type, to_type, uri, df)
upload(from_type, to_type, uri, df, failing) ==
    LET direct == _get_handler(from_type, to_type, DATASET_PERSISTENCE_HANDLERS)
        encoding_handler == _get_handler(from_type, _get_intermediate_format,
                                         DATASET_ENCODING_HANDLERS)
        persist_handler == _get_handler(_get_intermediate_format, to_type,
                                        DATASET_PERSISTENCE_HANDLERS)
    IN
    IF direct # NoneV
    THEN [calls |-> <<HandlerCall("persist", direct, <<df, uri>>)>>,
          ret |-> IF failing = 1 THEN HandlerError ELSE Return(NoneV)]
    ELSE IF encoding_handler # NoneV /\ persist_handler # NoneV
    THEN LET table == Encoded(encoding_handler, df) IN
         IF failing = 1
         THEN [calls |-> <<HandlerCall("encode", encoding_handler, <<df>>)>>,
               ret |-> HandlerError]
         ELSE [calls |-> <<HandlerCall("encode", encoding_handler, <<df>>),
                           HandlerCall("persist", persist_handler, <<table, uri>>)>>,
               ret |-> IF failing = 2 THEN HandlerError ELSE Return(NoneV)]
    ELSE [calls |-> <<>>,
          ret |-> Raise("NotImplementedError", "Not yet implemented upload data")]

\* ------------------------------------- StructuredDataset values and literals
BIGQUERY == "DatasetFormat.BIGQUERY"
DatasetFormats == {PARQUET, BIGQUERY}

\* DatasetFormat member .name, as to_literal writes it into the metadata.
FormatName(f) == IF f = PARQUET THEN "PARQUET" ELSE "BIGQUERY"

\* value_of that looks the member up by its value instead of its name.
valueOfByValue(value) ==
    IF value = "parquet" THEN Return(PARQUET)
    ELSE IF value = "bigquery" THEN Return(BIGQUERY)
    ELSE Raise("ValueError", "enum not found")

\* DatasetFormat.value_of(value): the member whose NAME equals value.
value_of(value) ==
    IF \E f \in DatasetFormats : FormatName(f) = value
    THEN Return(CHOOSE f \in DatasetFormats : FormatName(f) = value)
    ELSE Raise("ValueError", "enum not found")

\* Column types.  _SUPPORTED_TYPES: the declared (Python / numpy) and the
\* physical (pyarrow) element types that have a literal type.
Simple(name) == [k |-> "simple", name |-> name]
ListOf(t) == [k |-> "list", of |-> t]
DictOf(t) == [k |-> "dict", of |-> t]
SupportedTypeTable ==
    [x \in {"int", "pa.int64"} |-> "INTEGER"] @@
    [x \in {"float", "pa.float64"} |-> "FLOAT"] @@
    [x \in {"bool", "pa.bool_"} |-> "BOOLEAN"] @@
    [x \in {"str", "pa.string"} |-> "STRING"] @@
    [x \in {"datetime"} |-> "DATETIME"] @@
    [x \in {"timedelta"} |-> "DURATION"]

\* StructuredDatasetTransformer._get_dataset_column_literal_type(t); NoneV
\* stands for the AssertionError "type ... is currently not supported".
RECURSIVE _get_dataset_column_literal_type(_)
_get_dataset_column_literal_type(t) ==
    IF t.k = "simple"
    THEN IF t.name \in DOMAIN SupportedTypeTable
         THEN [simple |-> SupportedTypeTable[t.name]]
         ELSE NoneV
    ELSE LET inner == _get_dataset_column_literal_type(t.of) IN
         IF inner = NoneV THEN NoneV
         ELSE IF t.k = "list" THEN [collection_type |-> inner]
         ELSE [map_value_type |-> inner]

\* StructuredDataset[columns](dataframe, local_path, remote_path, file_format)
StructuredDataset(columns, dataframe, local_path, remote_path, file_format) ==
    [tag |-> "StructuredDataset", columns |-> columns,
     _dataframe |-> dataframe, _local_path |-> local_path,
     _remote_path |-> remote_path, _file_format |-> file_format,
     _downloaded |-> FALSE, _downloader |-> NoneV]

\* An in-memory dataframe: its class and the element types of its columns.
DataFrame(cls, schema) == [tag |-> "DataFrame", cls |-> cls, schema |-> schema]

\* Python truthiness of an optional str.
Truthy(v) == v \notin {NoneV, FalseV, EmptyStr}

\* StructuredDatasetTransformer._get_dataset_type_from_value(python_value)
_get_dataset_type_from_value(python_value) ==
    IF python_value.tag = "DataFrame" /\ python_value.cls \in {PaTable, PdDataFrame}
    THEN IF \A i \in 1..Len(python_value.schema) :
                python_value.schema[i] \in DOMAIN SupportedTypeTable
         THEN Return([i \in 1..Len(python_value.schema) |->
                        [simple |-> SupportedTypeTable[python_value.schema[i]]]])
         ELSE Raise("KeyError", "_SUPPORTED_TYPES")
    ELSE IF python_value.tag = "StructuredDataset"
    THEN IF \A i \in 1..Len(python_value.columns) :
                _get_dataset_column_literal_type(python_value.columns[i]) # NoneV
         THEN Return([i \in 1..Len(python_value.columns) |->
                        _get_dataset_column_literal_type(python_value.columns[i])])
         ELSE Raise("AssertionError", "type is currently not supported by StructuredDataset")
    ELSE Return(<<>>)

StructuredDatasetLiteral(uri, format, columns) ==
    [tag |-> "StructuredDatasetLiteral", uri |-> uri, format |-> format,
     columns |-> columns]

\* The end of to_literal: the Literal is built, and with it the type
\* descriptor of the value, after the payload has gone out.
BuildLiteral(python_val, uri, file_format, sent, m) ==
    LET t == _get_dataset_type_from_value(python_val) IN
    [ret |-> IF Raised(t) THEN t
             ELSE Return(StructuredDatasetLiteral(uri, FormatName(file_format), t.value)),
     calls |-> sent, minted |-> m]

\* to_literal that refuses a StructuredDataset without a payload.
sdToLiteralRequiringPayload(python_val, m, failing) ==
    IF python_val.tag = "StructuredDataset"
    THEN LET mint == ~Truthy(python_val._remote_path)
             uri == IF mint THEN get_random_remote_path(m + 1)
                    ELSE python_val._remote_path
             m2 == IF mint THEN m + 1 ELSE m
             df == python_val._dataframe
             file_format == python_val._file_format
         IN  IF Truthy(python_val._local_path)
             THEN IF failing = 1
                  THEN [ret |-> IOFailure,
                        calls |-> <<PutData(python_val._local_path, uri)>>,
                        minted |-> m2]
                  ELSE BuildLiteral(python_val, uri, file_format,
                                    <<PutData(python_val._local_path, uri)>>, m2)
             ELSE IF df # NoneV
             THEN LET u == upload(df.cls, file_format, uri, df, failing) IN
                  IF Raised(u.ret)
                  THEN [ret |-> u.ret, calls |-> u.calls, minted |-> m2]
                  ELSE BuildLiteral(python_val, uri, file_format, u.calls, m2)
             ELSE [ret |-> Raise("ValueError", "no payload"), calls |-> <<>>,
                   minted |-> m2]
    ELSE LET uri == get_random_remote_path(m + 1)
             file_format == PARQUET
             u == upload(python_val.cls, file_format, uri, python_val, failing)
         IN  IF Raised(u.ret)
             THEN [ret |-> u.ret, calls |-> u.calls, minted |-> m + 1]
             ELSE BuildLiteral(python_val, uri, file_format, u.calls, m + 1)

\* to_literal that ignores the remote_path of the value.
sdToLiteralAlwaysMinting(python_val, m, failing) ==
    IF python_val.tag = "StructuredDataset"
    THEN LET mint == TRUE
             uri == IF mint THEN get_random_remote_path(m + 1)
                    ELSE python_val._remote_path
             m2 == IF mint THEN m + 1 ELSE m
             df == python_val._dataframe
             file_format == python_val._file_format
         IN  IF Truthy(python_val._local_path)
             THEN IF failing = 1
                  THEN [ret |-> IOFailure,
                        calls |-> <<PutData(python_val._local_path, uri)>>,
                        minted |-> m2]
                  ELSE BuildLiteral(python_val, uri, file_format,
                                    <<PutData(python_val._local_path, uri)>>, m2)
             ELSE IF df # NoneV
             THEN LET u == upload(df.cls, file_format, uri, df, failing) IN
                  IF Raised(u.ret)
                  THEN [ret |-> u.ret, calls |-> u.calls, minted |-> m2]
                  ELSE BuildLiteral(python_val, uri, file_format, u.calls, m2)
             ELSE BuildLiteral(python_val, uri, file_format, <<>>, m2)
    ELSE LET uri == get_random_remote_path(m + 1)
             file_format == PARQUET
             u == upload(python_val.cls, file_format, uri, python_val, failing)
         IN  IF Raised(u.ret)
             THEN [ret |-> u.ret, calls |-> u.calls, minted |-> m + 1]
             ELSE BuildLiteral(python_val, uri, file_format, u.calls, m + 1)

\* StructuredDatasetTransformer.to_literal(ctx, python_val, python_type,
\* expected); failing is the index of the collaborator call that raises.
sd_to_literal(python_val, m, failing) ==
    IF python_val.tag = "StructuredDataset"
    THEN LET mint == ~Truthy(python_val._remote_path)
             uri == IF mint THEN get_random_remote_path(m + 1)
                    ELSE python_val._remote_path
             m2 == IF mint THEN m + 1 ELSE m
             df == python_val._dataframe
             file_format == python_val._file_format
         IN  IF Truthy(python_val._local_path)
             THEN IF failing = 1
                  THEN [ret |-> IOFailure,
                        calls |-> <<PutData(python_val._local_path, uri)>>,
                        minted |-> m2]
                  ELSE BuildLiteral(python_val, uri, file_format,
                                    <<PutData(python_val._local_path, uri)>>, m2)
             ELSE IF df # NoneV
             THEN LET u == upload(df.cls, file_format, uri, df, failing) IN
                  IF Raised(u.ret)
                  THEN [ret |-> u.ret, calls |-> u.calls, minted |-> m2]
                  ELSE BuildLiteral(python_val, uri, file_format, u.calls, m2)
             ELSE BuildLiteral(python_val, uri, file_format, <<>>, m2)
    ELSE LET uri == get_random_remote_path(m + 1)
             file_format == PARQUET
             u == upload(python_val.cls, file_format, uri, python_val, failing)
         IN  IF Raised(u.ret)
             THEN [ret |-> u.ret, calls |-> u.calls, minted |-> m + 1]
             ELSE BuildLiteral(python_val, uri, file_format, u.calls, m + 1)

\* Expected types of to_python_value: StructuredDataset, a column-tagged
\* StructuredDataset[...] subclass, or a dataframe class.
StructuredDatasetType(columns) == [tag |-> "type", cls |-> "StructuredDataset",
                                   columns |-> columns]
DataFrameType(cls) == [tag |-> "type", cls |-> cls]

\* StructuredDatasetTransformer.to_python_value(ctx, lv, expected_python_type)
sd_to_python_value(lv, expected_python_type, failing) ==
    LET fmt == value_of(lv.format)
        uri == lv.uri
    IN
    IF Raised(fmt)
    THEN [ret |-> fmt, calls |-> <<>>]
    ELSE IF expected_python_type.cls = "StructuredDataset"
    THEN [ret |-> Return(StructuredDataset(expected_python_type.columns, NoneV, NoneV,
                                           uri, fmt.value)),
          calls |-> <<>>]
    ELSE download(fmt.value, expected_python_type.cls, uri, failing)

\* "t not in self._REGISTER_TYPES"
Contains(list, t) == \E i \in 1..Len(list) : list[i] = t

\* The first half of register_handler: record a type not seen before and
\* route it to this transformer.  st is [types, overridden].
SeeType(st, t) ==
    IF ~Contains(st.types, t)
    THEN [types |-> Append(st.types, t), overridden |-> Append(st.overridden, t)]
    ELSE st

\* The isinstance chain of register_handler: which registry takes h.
RegistryOf(h) ==
    IF "DatasetRetrievalHandler" \in h.bases THEN "retrieval"
    ELSE IF "DatasetPersistenceHandler" \in h.bases THEN "persistence"
    ELSE IF "DatasetEncodingHandler" \in h.bases THEN "encoding"
    ELSE IF "DatasetDecodingHandler" \in h.bases THEN "decoding"
    ELSE "TypeError"

\* ---------------------------------------------------------------- actions
\* The threads that call __fspath__ on the instance, and a thread that has
\* not entered it yet; invoked and assigned record what the thread has done.
Threads == 1..NThreads
NotStarted == [pc |-> "183", invoked |-> FALSE, assigned |-> FALSE]

Init ==
    /\ ff = NoneV
    /\ hist = NoHist
    /\ minted = 0
    /\ op = [name |-> "init"]
    /\ ret = Return(NoneV)
    /\ calls = <<>>
    /\ DATASET_RETRIEVAL_HANDLERS = EmptyDict
    /\ DATASET_PERSISTENCE_HANDLERS = EmptyDict
    /\ DATASET_ENCODING_HANDLERS = EmptyDict
    /\ DATASET_DECODING_HANDLERS = EmptyDict
    /\ REGISTER_TYPES = <<>>
    /\ overridden = <<>>
    /\ registrations = 0
    /\ threads = [t \in Threads |-> NotStarted]

\* User code constructs FlyteFile(path, downloader, remote_path).
Construct ==
    \E path \in {LocalFile, S3Uri},
       downloader \in {noop, UserDownloader},
       remote_path \in {NoneV, FalseV, EmptyStr, OtherBucket} :
        /\ ff' = FlyteFile("", path, downloader, remote_path)
        /\ hist' = NoHist
        /\ op' = [name |-> "__init__"]
        /\ ret' = Return(NoneV)
        /\ calls' = <<>>
        /\ UNCHANGED <<minted>>
        /\ UNCHANGED <<dsVars, threads>>

\* The values a caller can hand to to_literal.
EncodeValues ==
    {NoneV, OtherV} \cup PathStrings \cup {PathOf(LocalFile), PathOf(NoSuchFile)}
        \cup (IF ff = NoneV THEN {} ELSE {ff})

Encode ==
    \E python_val \in EncodeValues, python_type \in FileTypes :
      \E io \in IF to_literal(python_val, python_type, minted, "ok").calls = <<>>
                THEN {"ok"} ELSE {"ok", "fail"} :
        LET r == to_literal(python_val, python_type, minted, io) IN
        /\ r.minted <= MaxMint
        /\ op' = [name |-> "to_literal", python_val |-> python_val,
                  python_type |-> python_type]
        /\ ret' = r.ret
        /\ calls' = r.calls
        /\ minted' = r.minted
        /\ UNCHANGED <<ff, hist>>
        /\ UNCHANGED <<dsVars, threads>>

\* The literals a caller can hand to to_python_value.
DecodeLiterals == {Blob("csv", u) : u \in {LocalFile, S3Uri, FileUri}}

Decode ==
    \E lv \in DecodeLiterals, expected_python_type \in FileTypes \cup {IntType} :
        LET r == to_python_value(lv, expected_python_type, minted) IN
        /\ r.minted <= MaxMint
        /\ op' = [name |-> "to_python_value", lv |-> lv,
                  expected_python_type |-> expected_python_type]
        /\ ret' = r.ret
        /\ calls' = r.calls
        /\ minted' = r.minted
        /\ IF ~Raised(r.ret) /\ r.ret.value.tag = "FlyteFile"
           THEN ff' = r.ret.value /\ hist' = NoHist
           ELSE UNCHANGED <<ff, hist>>
        /\ UNCHANGED <<dsVars, threads>>

\* A caller dereferences the instance: os.fspath(ff), open(ff).
Fspath ==
    /\ ff # NoneV
    /\ hist.fspath < MaxDeref
    /\ \E outcome \in {"returns", "raises"} :
        LET r == fspath(ff, outcome) IN
        /\ outcome = "raises" => Raised(r.ret) /\ MayRaise(ff._downloader)
        /\ op' = [name |-> "__fspath__"]
        /\ ff' = r.self
        /\ ret' = r.ret
        /\ calls' = r.calls
        /\ hist' = [hist EXCEPT !.fspath = @ + 1,
                                !.invoked = @ + Len(Invocations(r.calls)),
                                !.raised = @ + (IF Raised(r.ret) THEN 1 ELSE 0)]
    /\ UNCHANGED <<minted>>
    /\ UNCHANGED <<dsVars, threads>>

\* A caller asks for the download explicitly.
TriggerDownload ==
    /\ ff # NoneV
    /\ hist.trigger < MaxTrigger
    /\ \E outcome \in {"returns", "raises"} :
        LET r == trigger_download(ff, outcome) IN
        /\ outcome = "raises" => Raised(r.ret) /\ MayRaise(ff._downloader)
        /\ op' = [name |-> "trigger_download"]
        /\ ff' = r.self
        /\ ret' = r.ret
        /\ calls' = r.calls
        /\ hist' = [hist EXCEPT !.trigger = @ + 1]
    /\ UNCHANGED <<minted>>
    /\ UNCHANGED <<dsVars, threads>>

\* The registrations callers make: each kind of handler under the keys the
\* dispatch looks at, one key with two retrieval handlers, a decoding handler
\* under the direct-retrieval key, and an object that is no handler.
Registrations ==
    {<<PARQUET, PdDataFrame, r1>>, <<PARQUET, PdDataFrame, r2>>,
     <<PARQUET, PaTable, r2>>, <<PaTable, PdDataFrame, d1>>,
     <<PARQUET, PdDataFrame, d1>>,
     <<PdDataFrame, PARQUET, p1>>, <<PaTable, PARQUET, p1>>,
     <<PdDataFrame, PaTable, e1>>,
     <<PARQUET, PdDataFrame, notAHandler>>}

\* StructuredDatasetTransformer.register_handler(from_type, to_type, h)
register_handler(reg) ==
    LET from_type == reg[1]
        to_type == reg[2]
        h == reg[3]
        seen == SeeType(SeeType([types |-> REGISTER_TYPES,
                                 overridden |-> overridden], from_type), to_type)
        registry == RegistryOf(h)
    IN
    /\ REGISTER_TYPES' = seen.types
    /\ overridden' = seen.overridden
    /\ DATASET_RETRIEVAL_HANDLERS' =
           IF registry = "retrieval"
           THEN SetItem(DATASET_RETRIEVAL_HANDLERS, from_type, to_type, h)
           ELSE DATASET_RETRIEVAL_HANDLERS
    /\ DATASET_PERSISTENCE_HANDLERS' =
           IF registry = "persistence"
           THEN SetItem(DATASET_PERSISTENCE_HANDLERS, from_type, to_type, h)
           ELSE DATASET_PERSISTENCE_HANDLERS
    /\ DATASET_ENCODING_HANDLERS' =
           IF registry = "encoding"
           THEN SetItem(DATASET_ENCODING_HANDLERS, from_type, to_type, h)
           ELSE DATASET_ENCODING_HANDLERS
    /\ DATASET_DECODING_HANDLERS' =
           IF registry = "decoding"
           THEN SetItem(DATASET_DECODING_HANDLERS, from_type, to_type, h)
           ELSE DATASET_DECODING_HANDLERS
    /\ op' = [name |-> "register_handler", from_type |-> from_type,
              to_type |-> to_type, h |-> h]
    /\ ret' = IF registry = "TypeError"
              THEN Raise("TypeError", "We don't support this type of handlers")
              ELSE Return(NoneV)
    /\ calls' = <<>>
    /\ registrations' = registrations + 1
    /\ UNCHANGED <<fileVars, threads>>

RegisterHandler ==
    /\ registrations < MaxRegister
    /\ \E reg \in Registrations : register_handler(reg)

\* The registrations made before datasets are encoded and decoded.
CodecRegistrations ==
    {<<PdDataFrame, PARQUET, p1>>, <<PdDataFrame, PaTable, e1>>,
     <<PaTable, PARQUET, p1>>, <<PARQUET, PdDataFrame, r1>>}

RegisterCodecHandler ==
    /\ registrations < MaxRegister
    /\ \E reg \in CodecRegistrations : register_handler(reg)

\* The number of handler calls a download / upload makes when none raises.
Hops(r) == Len(r.calls)

Download ==
    \E to_type \in {PdDataFrame, PaTable} :
      \E failing \in 0..Hops(download(PARQUET, to_type, S3Uri, 0)) :
        LET r == download(PARQUET, to_type, S3Uri, failing) IN
        /\ op' = [name |-> "download", from_type |-> PARQUET, to_type |-> to_type,
                  uri |-> S3Uri]
        /\ ret' = r.ret
        /\ calls' = r.calls
        /\ UNCHANGED fileVars
        /\ UNCHANGED <<dsVars, threads>>

DataFrameValue == [tag |-> "DataFrame", id |-> "df"]

UploadData ==
    \E from_type \in {PdDataFrame, PaTable} :
      \E failing \in 0..Hops(upload(from_type, PARQUET, S3Uri, DataFrameValue, 0)) :
        LET r == upload(from_type, PARQUET, S3Uri, DataFrameValue, failing) IN
        /\ op' = [name |-> "upload", from_type |-> from_type, to_type |-> PARQUET,
                  uri |-> S3Uri, df |-> DataFrameValue]
        /\ ret' = r.ret
        /\ calls' = r.calls
        /\ UNCHANGED fileVars
        /\ UNCHANGED <<dsVars, threads>>

\* The values a caller hands to the dataset transformer's to_literal.
DatasetValues ==
    {StructuredDataset(columns, dataframe, local_path, remote_path, PARQUET) :
        columns \in {<<Simple("int"), ListOf(Simple("str"))>>,
                     <<DictOf(Simple("complex"))>>},
        dataframe \in {NoneV, DataFrame(PdDataFrame, <<"pa.int64">>)},
        local_path \in {NoneV, LocalFile},
        remote_path \in {NoneV, OtherBucket}}
    \cup {StructuredDataset(<<>>, DataFrame(PdDataFrame, <<"pa.int64">>), NoneV, NoneV,
                            BIGQUERY),
          StructuredDataset(<<>>, NoneV, LocalFile, EmptyStr, BIGQUERY)}
    \cup {DataFrame(PdDataFrame, <<"pa.int64">>), DataFrame(PdDataFrame, <<"pa.binary">>),
          DataFrame(PaTable, <<"pa.string">>)}

EncodeDataset ==
    \E python_val \in DatasetValues :
      \E failing \in 0..Len(sd_to_literal(python_val, minted, 0).calls) :
        LET r == sd_to_literal(python_val, minted, failing) IN
        /\ r.minted <= MaxMint
        /\ op' = [name |-> "sd_to_literal", python_val |-> python_val]
        /\ ret' = r.ret
        /\ calls' = r.calls
        /\ minted' = r.minted
        /\ UNCHANGED <<ff, hist>>
        /\ UNCHANGED <<dsVars, threads>>

DatasetLiterals ==
    {StructuredDatasetLiteral(S3Uri, format, <<>>) :
        format \in {"PARQUET", "BIGQUERY", "parquet"}}
DatasetTypes ==
    {StructuredDatasetType(<<>>), StructuredDatasetType(<<Simple("int")>>),
     DataFrameType(PdDataFrame), DataFrameType(PaTable)}

DecodeDataset ==
    \E lv \in DatasetLiterals, expected_python_type \in DatasetTypes :
      \E failing \in 0..Len(sd_to_python_value(lv, expected_python_type, 0).calls) :
        LET r == sd_to_python_value(lv, expected_python_type, failing) IN
        /\ op' = [name |-> "sd_to_python_value", lv |-> lv,
                  expected_python_type |-> expected_python_type]
        /\ ret' = r.ret
        /\ calls' = r.calls
        /\ UNCHANGED fileVars
        /\ UNCHANGED <<dsVars, threads>>

\* ------------------------------------------- __fspath__ from several threads
\* __fspath__ as the interpreter runs it, a line at a time; a thread switch
\* can come between any two lines.  pc is the line of file.py the thread
\* executes next.

\* A check that claims the download in the same step as it reads the flag.
fspathCheckAndSet(self) ==
    [self |-> [self EXCEPT !._downloaded = TRUE],
     next |-> IF ~self._downloaded THEN "184" ELSE "186"]

\* line 183: if not self._downloaded
fspathCheck(self) ==
    [self |-> self, next |-> IF ~self._downloaded THEN "184" ELSE "186"]

\* One instance is made, by the constructor or by to_python_value, before any
\* thread uses it.
CreateShared ==
    /\ ff = NoneV
    /\ (Construct \/ Decode)

ThreadCheck ==
    \E t \in Threads :
        LET r == fspathCheck(ff) IN
        /\ ff # NoneV
        /\ threads[t].pc = "183"
        /\ ff' = r.self
        /\ threads' = [threads EXCEPT ![t].pc = r.next]
        /\ hist' = [hist EXCEPT !.fspath = @ + 1]
        /\ op' = [name |-> "__fspath__:183", thread |-> t]
        /\ calls' = <<>>
        /\ UNCHANGED <<ret, minted>>
        /\ UNCHANGED dsVars

\* line 184: self._downloader()
ThreadCall ==
    \E t \in Threads, outcome \in {"returns", "raises"} :
        /\ threads[t].pc = "184"
        /\ outcome = "raises" => MayRaise(ff._downloader)
        /\ threads' = [threads EXCEPT ![t].pc = IF outcome = "returns" THEN "185"
                                                ELSE "raised",
                                      ![t].invoked = TRUE]
        /\ hist' = [hist EXCEPT !.invoked = @ + 1,
                                !.raised = @ + (IF outcome = "raises" THEN 1 ELSE 0)]
        /\ op' = [name |-> "__fspath__:184", thread |-> t]
        /\ calls' = Invoke(ff._downloader)
        /\ ret' = IF outcome = "returns" THEN ret ELSE Raise("Exception", "downloader")
        /\ UNCHANGED <<ff, minted>>
        /\ UNCHANGED dsVars

\* line 185: self._downloaded = True
ThreadSet ==
    \E t \in Threads :
        /\ threads[t].pc = "185"
        /\ ff' = [ff EXCEPT !._downloaded = TRUE]
        /\ threads' = [threads EXCEPT ![t].pc = "186", ![t].assigned = TRUE]
        /\ op' = [name |-> "__fspath__:185", thread |-> t]
        /\ calls' = <<>>
        /\ UNCHANGED <<hist, ret, minted>>
        /\ UNCHANGED dsVars

\* line 186: return self._path
ThreadReturn ==
    \E t \in Threads :
        /\ threads[t].pc = "186"
        /\ threads' = [threads EXCEPT ![t].pc = "returned"]
        /\ op' = [name |-> "__fspath__:186", thread |-> t]
        /\ ret' = Return(ff._path)
        /\ calls' = <<>>
        /\ UNCHANGED <<ff, hist, minted>>
        /\ UNCHANGED dsVars

NextThreads == CreateShared \/ ThreadCheck \/ ThreadCall \/ ThreadSet \/ ThreadReturn
SpecThreads == Init /\ [][NextThreads]_vars

Next == Construct \/ Encode \/ Decode \/ Fspath \/ TriggerDownload

Spec == Init /\ [][Next]_vars

NextDataset == RegisterHandler \/ Download \/ UploadData

SpecDataset == Init /\ [][NextDataset]_vars

NextCodec == RegisterCodecHandler \/ EncodeDataset \/ DecodeDataset
SpecCodec == Init /\ [][NextCodec]_vars
\* ------------------------------------------------------------------ claims
IsEncode == op.name = "to_literal"
EncodesFlyteFile == IsEncode /\ op.python_val.tag = "FlyteFile"
NoStorageCall == Puts(calls) = <<>> /\ Gets(calls) = <<>>
ReturnsUri(uri) == ~Raised(ret) /\ ret.value.tag = "Literal" /\ ret.value.uri = uri
\* A remote destination is set when remote_path is a non-empty str.
DestinationSet(v) == v._remote_path.tag = "str" /\ v._remote_path # EmptyStr

\* C1: to_literal of a FlyteFile whose _remote_source is set returns a Blob
\* literal with uri = _remote_source and makes no put_data and no get_data
\* call, whatever the remote_path, the downloaded flag and the declared type.
C1_ShortCircuit ==
    (EncodesFlyteFile /\ op.python_val._remote_source # NoneV)
        => (ReturnsUri(op.python_val._remote_source) /\ NoStorageCall)

\* to_literal decides to upload: a local existing file given as str or
\* pathlib.Path, or a FlyteFile with a local path, no _remote_source and a
\* remote_path that is not False; the declared type is a FlyteFile type.
UploadDecided(val, type) ==
    /\ type.cls = "FlyteFile"
    /\ \/ val.tag = "str" /\ ~is_remote(val) /\ PathText(val) \in RegularFiles
       \/ val.tag = "Path" /\ val.rest \in RegularFiles
       \/ /\ val.tag = "FlyteFile"
          /\ ~is_remote(val._path)
          /\ val._remote_source = NoneV
          /\ val._remote_path # FalseV

SourceOf(val) ==
    IF val.tag = "FlyteFile" THEN val._path
    ELSE IF val.tag = "Path" THEN Str("", val.rest)
    ELSE val

\* C2: whenever to_literal decides to upload, the storage collaborator gets
\* exactly one put_data(source_path, dest), where dest is the value's
\* remote_path if one is set and otherwise a path minted by this very call,
\* and a returned literal has uri = dest.
C2_UploadOnce ==
    [][(op'.name = "to_literal" /\ UploadDecided(op'.python_val, op'.python_type))
        => LET val == op'.python_val
               explicit == val.tag = "FlyteFile" /\ DestinationSet(val)
               dest == IF explicit THEN val._remote_path
                       ELSE get_random_remote_path(minted')
           IN  /\ calls' = <<PutData(SourceOf(val), dest)>>
               /\ minted' = IF explicit THEN minted ELSE minted + 1
               /\ ret' \in {Return(Blob(op'.python_type.ext, dest)), IOFailure}]_vars

\* C2 witness: a local file given as str was uploaded to a minted path.
C2_Witness ==
    /\ IsEncode /\ op.python_val = LocalFile /\ op.python_type.cls = "FlyteFile"
    /\ calls = <<PutData(LocalFile, get_random_remote_path(minted))>>
    /\ ReturnsUri(get_random_remote_path(minted))

\* C3: to_literal of a remote URI given as str (file:// included), with a
\* FlyteFile declared type, succeeds, returns uri = that str and makes no
\* put_data call.
C3_RemoteStrVerbatim ==
    (IsEncode /\ op.python_val.tag = "str" /\ is_remote(op.python_val)
        /\ op.python_type.cls = "FlyteFile")
        => (ReturnsUri(op.python_val) /\ Puts(calls) = <<>>)

\* C4: for a FlyteFile without _remote_source, upload is skipped iff
\* remote_path is False, or the path is remote, or the declared type is a
\* plain path type; when skipped there is no put_data call and the literal's
\* uri is the value's path.
C4_SkipPolicy ==
    (EncodesFlyteFile /\ op.python_val._remote_source = NoneV)
        => LET val == op.python_val
               skip == \/ val._remote_path = FalseV
                       \/ is_remote(val._path)
                       \/ IsPlainPathType(op.python_type)
           IN  IF skip
               THEN Puts(calls) = <<>> /\ ReturnsUri(val._path)
               ELSE Len(Puts(calls)) = 1

\* C5: to_literal of a FlyteFile whose path is remote and whose remote_path
\* names a destination copies the source there (one put_data to remote_path)
\* and the literal's uri is that destination.
C5_RemoteCopiedWhenTold ==
    (EncodesFlyteFile /\ op.python_val._remote_source = NoneV
        /\ is_remote(op.python_val._path) /\ DestinationSet(op.python_val)
        /\ op.python_type.cls = "FlyteFile")
        => /\ Puts(calls) = <<PutData(op.python_val._path, op.python_val._remote_path)>>
           /\ ret \in {Return(Blob(op.python_type.ext, op.python_val._remote_path)),
                       IOFailure}

\* The spec's error kinds, by the raise statement that produces them.
InvalidArgumentNone == Raise("AssertionError", "None value cannot be converted to a file.")
TypeMismatch == Raise("AssertionError", "Expected FlyteFile or os.PathLike object")
InvalidState ==
    Raise("ValueError", "Attempting to trigger download on non-downloadable file")
UnsupportedDownload == Raise("ValueError", "Not yet implemented download data")

\* C6: to_literal fails with InvalidArgument for None, fails for a str or
\* pathlib.Path that names no existing regular file, and fails with
\* TypeMismatch for a value that is neither a FlyteFile nor a str / path; in
\* each of these cases no put_data and no get_data call has been made.
C6_EncodeErrors ==
    IsEncode =>
        LET val == op.python_val IN
        /\ val = NoneV => ret = InvalidArgumentNone /\ NoStorageCall
        /\ (val.tag = "str" /\ PathText(val) \notin RegularFiles)
              => Raised(ret) /\ NoStorageCall
        /\ (val.tag = "Path" /\ val.rest \notin RegularFiles)
              => Raised(ret) /\ NoStorageCall
        /\ val.tag \notin {"None", "FlyteFile", "str", "Path"}
              => ret = TypeMismatch /\ NoStorageCall

\* C7: to_python_value for a FlyteFile type.  A remote uri gives a FlyteFile
\* whose path is a local path minted by this call, _remote_source = uri,
\* _downloaded = False and a downloader bound to get_data(uri, path), and the
\* call itself makes no get_data call; get_data(uri, path) is called only by
\* a later __fspath__ or trigger_download.  A uri that is not remote gives a
\* FlyteFile with path = uri, the noop downloader and no _remote_source.
C7_DecodeLazy ==
    [][/\ (op'.name = "to_python_value"
            /\ op'.expected_python_type.cls = "FlyteFile")
          => LET uri == op'.lv.uri
                 v == ret'.value
             IN  /\ ~Raised(ret') /\ v.tag = "FlyteFile"
                 /\ calls' = <<>>
                 /\ ~v._downloaded
                 /\ IF is_remote(uri)
                    THEN /\ minted' = minted + 1
                         /\ v._path = get_random_local_path(minted')
                         /\ v._remote_source = uri
                         /\ v._downloader = Downloader(uri, v._path)
                    ELSE /\ minted' = minted
                         /\ v._path = uri
                         /\ v._remote_source = NoneV
                         /\ v._downloader = noop
       /\ Gets(calls') # <<>>
          => /\ op'.name \in {"__fspath__", "trigger_download"}
             /\ Gets(calls') = <<GetData(ff._remote_source, ff._path)>>]_vars

\* C7 witness: a remote literal has been decoded to a FlyteFile.
C7_Witness ==
    /\ op.name = "to_python_value" /\ op.lv.uri = S3Uri
    /\ ~Raised(ret) /\ ret.value.tag = "FlyteFile"
    /\ ret.value._remote_source = S3Uri /\ ~ret.value._downloaded
    /\ ret.value._path = get_random_local_path(minted)

\* C8: over the __fspath__ calls on one instance whose downloader does not
\* raise, the downloader is invoked exactly once, by the first call; the
\* _downloaded flag goes from False to True then and is never reset.
C8_DownloadOnce ==
    /\ [](ff # NoneV /\ hist.raised = 0
            => /\ hist.invoked = (IF hist.fspath >= 1 THEN 1 ELSE 0)
               /\ (ff._downloaded <=> hist.fspath >= 1))
    /\ [][/\ (op'.name = "__fspath__" /\ hist.raised = 0 /\ ~Raised(ret'))
              => /\ Len(Invocations(calls')) = (IF hist.fspath = 0 THEN 1 ELSE 0)
                 /\ ff'._downloaded
          /\ (ff # NoneV /\ op'.name \notin {"__init__", "to_python_value"}
                /\ ff._downloaded)
              => ff'._downloaded]_vars

\* C8 witness: a decoded remote file dereferenced twice, downloaded once.
C8_Witness ==
    /\ ff # NoneV /\ ff._downloader.tag = "_downloader"
    /\ hist.fspath = 2 /\ hist.raised = 0 /\ hist.invoked = 1
    /\ ff._downloaded /\ op.name = "__fspath__" /\ calls = <<>>

\* C9: trigger_download on a FlyteFile with the noop downloader raises
\* (InvalidState) and invokes nothing; otherwise it invokes the downloader
\* once and leaves the instance, its _downloaded flag included, unchanged, so
\* that an __fspath__ on a file not yet dereferenced invokes the downloader
\* even after a trigger_download.
C9_TriggerDownload ==
    [][/\ op'.name = "trigger_download"
          => /\ ff' = ff
             /\ IF ff._downloader = noop
                THEN ret' = InvalidState /\ calls' = <<>>
                ELSE /\ Invocations(calls') = <<Call(ff._downloader)>>
                     /\ ret' \in {Return(NoneV), Raise("Exception", "downloader")}
       /\ (op'.name = "__fspath__" /\ hist.fspath = 0)
          => Invocations(calls') = <<Call(ff._downloader)>>]_vars

\* C9 witness: a first __fspath__ after a trigger_download that invoked the
\* downloader invokes it again.
C9_Witness ==
    /\ ff # NoneV /\ ff._downloader # noop
    /\ hist.trigger = 1 /\ hist.fspath = 1 /\ hist.invoked = 1
    /\ op.name = "__fspath__" /\ Invocations(calls) = <<Call(ff._downloader)>>

\* C10: download(from_type, to_type, uri).  With a retrieval handler under
\* (from_type, to_type), that handler alone is called, once, with uri, and its
\* result is returned as it is, even when a two-hop path exists.  Otherwise,
\* with a retrieval handler under (from_type, intermediate) and a decoding
\* handler under (intermediate, to_type), the result is decode(retrieve(uri)).
\* Otherwise it raises (Unsupported) and no handler is called.
C10_DownloadDispatch ==
    op.name = "download" =>
        LET direct == <<op.from_type, op.to_type>>
            hop1 == <<op.from_type, PaTable>>
            hop2 == <<PaTable, op.to_type>>
        IN
        IF direct \in DOMAIN DATASET_RETRIEVAL_HANDLERS
        THEN LET h == DATASET_RETRIEVAL_HANDLERS[direct] IN
             /\ calls = <<HandlerCall("retrieve", h, <<op.uri>>)>>
             /\ ret \in {Return(Retrieved(h, op.uri)), HandlerError}
        ELSE IF /\ hop1 \in DOMAIN DATASET_RETRIEVAL_HANDLERS
                /\ hop2 \in DOMAIN DATASET_DECODING_HANDLERS
        THEN LET r == DATASET_RETRIEVAL_HANDLERS[hop1]
                 d == DATASET_DECODING_HANDLERS[hop2]
                 table == Retrieved(r, op.uri)
             IN  \/ /\ ret = Return(Decoded(d, table))
                    /\ calls = <<HandlerCall("retrieve", r, <<op.uri>>),
                                 HandlerCall("decode", d, <<table>>)>>
                 \/ /\ ret = HandlerError
                    /\ calls \in {<<HandlerCall("retrieve", r, <<op.uri>>)>>,
                                  <<HandlerCall("retrieve", r, <<op.uri>>),
                                    HandlerCall("decode", d, <<table>>)>>}
        ELSE ret = UnsupportedDownload /\ calls = <<>>

\* C10 witness: the direct handler answered although a two-hop path exists.
C10_Witness ==
    /\ op.name = "download" /\ op.to_type = PdDataFrame
    /\ <<PARQUET, PaTable>> \in DOMAIN DATASET_RETRIEVAL_HANDLERS
    /\ <<PaTable, PdDataFrame>> \in DOMAIN DATASET_DECODING_HANDLERS
    /\ <<PARQUET, PdDataFrame>> \in DOMAIN DATASET_RETRIEVAL_HANDLERS
    /\ DATASET_RETRIEVAL_HANDLERS[<<PARQUET, PdDataFrame>>] = r1
    /\ DATASET_RETRIEVAL_HANDLERS[<<PARQUET, PaTable>>] = r2
    /\ ret = Return(Retrieved(r1, S3Uri))
    /\ calls = <<HandlerCall("retrieve", r1, <<S3Uri>>)>>

UnsupportedUpload == Raise("NotImplementedError", "Not yet implemented upload data")

\* C11: upload(from_type, to_type, uri, df).  A persistence handler under
\* (from_type, to_type) is used alone.  Otherwise an encoding handler under
\* (from_type, intermediate) followed by a persistence handler under
\* (intermediate, to_type) is used if both exist.  It raises (Unsupported)
\* exactly when neither path is complete, and then no handler has been called:
\* the encoder does not run when the second persistence handler is missing.
C11_UploadDispatch ==
    op.name = "upload" =>
        LET direct == <<op.from_type, op.to_type>>
            hop1 == <<op.from_type, PaTable>>
            hop2 == <<PaTable, op.to_type>>
            hasDirect == direct \in DOMAIN DATASET_PERSISTENCE_HANDLERS
            hasTwoHop == /\ hop1 \in DOMAIN DATASET_ENCODING_HANDLERS
                         /\ hop2 \in DOMAIN DATASET_PERSISTENCE_HANDLERS
        IN
        /\ ret = UnsupportedUpload <=> ~hasDirect /\ ~hasTwoHop
        /\ ret = UnsupportedUpload => calls = <<>>
        /\ hasDirect =>
              /\ calls = <<HandlerCall("persist", DATASET_PERSISTENCE_HANDLERS[direct],
                                       <<op.df, op.uri>>)>>
              /\ ret \in {Return(NoneV), HandlerError}
        /\ (~hasDirect /\ hasTwoHop) =>
              LET e == DATASET_ENCODING_HANDLERS[hop1]
                  p == DATASET_PERSISTENCE_HANDLERS[hop2]
                  table == Encoded(e, op.df)
              IN  \/ /\ ret = Return(NoneV)
                     /\ calls = <<HandlerCall("encode", e, <<op.df>>),
                                  HandlerCall("persist", p, <<table, op.uri>>)>>
                  \/ /\ ret = HandlerError
                     /\ calls \in {<<HandlerCall("encode", e, <<op.df>>)>>,
                                   <<HandlerCall("encode", e, <<op.df>>),
                                     HandlerCall("persist", p, <<table, op.uri>>)>>}

\* C11 witness: an encoder is registered but the second-hop persistence
\* handler is not; upload raised without calling the encoder.
C11_Witness ==
    /\ op.name = "upload" /\ op.from_type = PdDataFrame
    /\ <<PdDataFrame, PaTable>> \in DOMAIN DATASET_ENCODING_HANDLERS
    /\ <<PaTable, PARQUET>> \notin DOMAIN DATASET_PERSISTENCE_HANDLERS
    /\ <<PdDataFrame, PARQUET>> \notin DOMAIN DATASET_PERSISTENCE_HANDLERS
    /\ ret = UnsupportedUpload /\ calls = <<>>

\* The four registries by name, and the name of the registry for each
\* capability interface.
Registry(kind) ==
    CASE kind = "retrieval" -> DATASET_RETRIEVAL_HANDLERS
      [] kind = "persistence" -> DATASET_PERSISTENCE_HANDLERS
      [] kind = "encoding" -> DATASET_ENCODING_HANDLERS
      [] kind = "decoding" -> DATASET_DECODING_HANDLERS
RegistryAfter(kind) ==
    CASE kind = "retrieval" -> DATASET_RETRIEVAL_HANDLERS'
      [] kind = "persistence" -> DATASET_PERSISTENCE_HANDLERS'
      [] kind = "encoding" -> DATASET_ENCODING_HANDLERS'
      [] kind = "decoding" -> DATASET_DECODING_HANDLERS'
RegistryKinds == {"retrieval", "persistence", "encoding", "decoding"}
CapabilityOf(h) ==
    CASE h.bases = {"DatasetRetrievalHandler"} -> "retrieval"
      [] h.bases = {"DatasetPersistenceHandler"} -> "persistence"
      [] h.bases = {"DatasetEncodingHandler"} -> "encoding"
      [] h.bases = {"DatasetDecodingHandler"} -> "decoding"
      [] OTHER -> "none"
NoDuplicates(list) ==
    \A i, j \in 1..Len(list) : list[i] = list[j] => i = j
Elements(list) == {list[i] : i \in 1..Len(list)}

\* C12: register_handler(from_type, to_type, h) puts h under (from_type,
\* to_type) in the one registry of its capability, replacing a handler already
\* there, and leaves every other entry and the other three registries as they
\* were; _REGISTER_TYPES holds from_type and to_type of every registered
\* handler, holds no type twice, and every type in it has been handed to
\* override_transformer exactly once.
C12_RegisterHandler ==
    /\ [](/\ NoDuplicates(REGISTER_TYPES)
          /\ NoDuplicates(overridden)
          /\ Elements(overridden) = Elements(REGISTER_TYPES)
          /\ \A kind \in RegistryKinds : \A k \in DOMAIN Registry(kind) :
                /\ k[1] \in Elements(REGISTER_TYPES)
                /\ k[2] \in Elements(REGISTER_TYPES)
                /\ CapabilityOf(Registry(kind)[k]) = kind)
    /\ [][(op'.name = "register_handler" /\ registrations' = registrations + 1
            /\ CapabilityOf(op'.h) # "none")
          => LET key == <<op'.from_type, op'.to_type>>
                 kind == CapabilityOf(op'.h)
             IN  /\ ~Raised(ret')
                 /\ RegistryAfter(kind) = [k \in DOMAIN Registry(kind) \cup {key} |->
                                        IF k = key THEN op'.h ELSE Registry(kind)[k]]
                 /\ \A other \in RegistryKinds \ {kind} :
                       RegistryAfter(other) = Registry(other)]_vars

\* C12 witness: three registrations have filled two registries and the
\* retrieval key holds the handler registered last.
C12_Witness ==
    /\ op.name = "register_handler" /\ op.h = r2 /\ ~Raised(ret)
    /\ registrations = 3 /\ Len(REGISTER_TYPES) = 3
    /\ <<PARQUET, PdDataFrame>> \in DOMAIN DATASET_RETRIEVAL_HANDLERS
    /\ DATASET_RETRIEVAL_HANDLERS[<<PARQUET, PdDataFrame>>] = r2
    /\ <<PaTable, PdDataFrame>> \in DOMAIN DATASET_DECODING_HANDLERS

\* ---------------------------------------------- StructuredDataset encode / decode
IsDatasetEncode == op.name = "sd_to_literal" /\ op.python_val.tag = "StructuredDataset"
HandlerCalls(cs) == SelectSeq(cs, LAMBDA c : c.fn \in {"persist", "encode", "retrieve", "decode"})
\* The URI to_literal writes to: the remote_path of the value, else the path
\* it has just minted.
EncodeUri(v) == IF Truthy(v._remote_path) THEN v._remote_path
                ELSE get_random_remote_path(minted)
HasDataframe(v) == v._dataframe # NoneV
HasLocalPath(v) == Truthy(v._local_path)

\* C13 as stated: at encode time one of dataframe and local_path is the
\* payload; when both are set only one of them is persisted, and a
\* StructuredDataset with neither makes to_literal fail instead of returning
\* a literal.
C13_PayloadSource ==
    IsDatasetEncode =>
        LET v == op.python_val IN
        /\ (HasDataframe(v) /\ HasLocalPath(v)) =>
              ~(Puts(calls) # <<>> /\ HandlerCalls(calls) # <<>>)
        /\ (~HasDataframe(v) /\ ~HasLocalPath(v)) => Raised(ret)

\* C13 amended: when both are set only the local path is persisted (one
\* put_data, no handler call).  A StructuredDataset with neither a dataframe
\* nor a local path does not make to_literal fail: nothing is persisted and
\* the literal is returned, with uri = remote_path if set, else a freshly
\* minted path; the only failure is the one of an unsupported column type.
C13_PayloadSourceAmended ==
    IsDatasetEncode =>
        LET v == op.python_val IN
        /\ (HasDataframe(v) /\ HasLocalPath(v)) =>
              calls = <<PutData(v._local_path, EncodeUri(v))>>
        /\ (~HasDataframe(v) /\ ~HasLocalPath(v)) =>
              /\ calls = <<>>
              /\ Raised(ret) <=> Raised(_get_dataset_type_from_value(v))
              /\ ~Raised(ret) =>
                    /\ ret.value.tag = "StructuredDatasetLiteral"
                    /\ ret.value.uri = EncodeUri(v)

\* C13 witness: a StructuredDataset with no dataframe, no local path and no
\* remote path was encoded; a literal came back with a minted uri and nothing
\* was persisted.
C13_Witness ==
    /\ IsDatasetEncode
    /\ ~HasDataframe(op.python_val) /\ ~HasLocalPath(op.python_val)
    /\ op.python_val._remote_path = NoneV
    /\ ~Raised(ret) /\ ret.value.uri = get_random_remote_path(1)
    /\ calls = <<>>

\* C14: to_literal of a StructuredDataset.  The uri of the literal is the
\* remote_path of the value if set, else a freshly minted remote path.  With
\* a local path there is exactly one put_data(local_path, uri) and no handler
\* is called; otherwise a dataframe goes through
\* upload(type(df), file_format, uri, df).  The format of the literal is the
\* file_format of the value.
C14_EncodeDataset ==
    IsDatasetEncode =>
        LET v == op.python_val
            uri == EncodeUri(v)
        IN
        /\ minted = 0 => Truthy(v._remote_path)
        /\ HasLocalPath(v) =>
              /\ calls = <<PutData(v._local_path, uri)>>
              /\ ret \in {IOFailure, BuildLiteral(v, uri, v._file_format, calls, minted).ret}
        /\ (~HasLocalPath(v) /\ HasDataframe(v)) =>
              \E failing \in 0..2 :
                 LET u == upload(v._dataframe.cls, v._file_format, uri, v._dataframe,
                                 failing)
                 IN  /\ calls = u.calls
                     /\ Raised(u.ret) => ret = u.ret
                     /\ Raised(ret) => \/ ret = u.ret
                                        \/ ret = _get_dataset_type_from_value(v)
        /\ ~Raised(ret) =>
              /\ ret.value.uri = uri
              /\ ret.value.format = FormatName(v._file_format)

\* C14 witness: a StructuredDataset with a remote_path and a dataframe but no
\* local path was encoded through the two-hop upload; the literal carries the
\* remote_path and the format of the value.
C14_Witness ==
    /\ IsDatasetEncode
    /\ op.python_val._remote_path = OtherBucket
    /\ ~HasLocalPath(op.python_val) /\ HasDataframe(op.python_val)
    /\ Len(calls) = 2 /\ Puts(calls) = <<>>
    /\ ~Raised(ret) /\ ret.value.uri = OtherBucket /\ ret.value.format = "PARQUET"

FormatNames == {FormatName(f) : f \in DatasetFormats}

\* C15: to_python_value of a literal whose format names a DatasetFormat
\* member.  For StructuredDataset or a column-tagged subclass of it the result
\* is a value of that type with remote_path = the uri and file_format = the
\* format of the literal, and no handler and no storage call is made.  For
\* any other expected type the result is download(format, expected type,
\* uri).  The format name written by to_literal is read back as the same
\* member.
C15_DecodeDataset ==
    /\ \A f \in DatasetFormats : value_of(FormatName(f)) = Return(f)
    /\ (op.name = "sd_to_python_value" /\ op.lv.format \in FormatNames) =>
          IF op.expected_python_type.cls = "StructuredDataset"
          THEN /\ calls = <<>>
               /\ ~Raised(ret)
               /\ ret.value.tag = "StructuredDataset"
               /\ ret.value.columns = op.expected_python_type.columns
               /\ ret.value._remote_path = op.lv.uri
               /\ FormatName(ret.value._file_format) = op.lv.format
               /\ ret.value._dataframe = NoneV /\ ret.value._local_path = NoneV
          ELSE \E failing \in 0..2 :
                  LET d == download(CHOOSE f \in DatasetFormats :
                                        FormatName(f) = op.lv.format,
                                    op.expected_python_type.cls, op.lv.uri, failing)
                  IN  ret = d.ret /\ calls = d.calls

\* C15 witness: a PARQUET literal was decoded as a column-tagged
\* StructuredDataset while a retrieval handler for PARQUET was registered; no
\* call was made.
C15_Witness ==
    /\ op.name = "sd_to_python_value" /\ op.lv.format = "PARQUET"
    /\ op.expected_python_type = StructuredDatasetType(<<Simple("int")>>)
    /\ <<PARQUET, PdDataFrame>> \in DOMAIN DATASET_RETRIEVAL_HANDLERS
    /\ ~Raised(ret) /\ ret.value._file_format = PARQUET /\ calls = <<>>

\* C18: when to_literal fails because a column type has no entry in the
\* supported-type table, no data has been persisted before the failure: no
\* put_data call and no handler call was made.
C18_NoPersistBeforeUnsupported ==
    (/\ op.name = "sd_to_literal"
     /\ Raised(_get_dataset_type_from_value(op.python_val))
     /\ ret = _get_dataset_type_from_value(op.python_val)) => calls = <<>>

\* C19: a register_handler call that is rejected because the handler
\* implements none of the four capability interfaces leaves the state as it
\* was: the four registries, _REGISTER_TYPES and the types routed to the
\* transformer by override_transformer.
C19_RejectedRegistrationChangesNothing ==
    [][(/\ op'.name = "register_handler"
        /\ registrations' = registrations + 1
        /\ Raised(ret'))
       => /\ UNCHANGED <<DATASET_RETRIEVAL_HANDLERS, DATASET_PERSISTENCE_HANDLERS,
                         DATASET_ENCODING_HANDLERS, DATASET_DECODING_HANDLERS>>
          /\ UNCHANGED <<REGISTER_TYPES, overridden>>]_vars

\* C17: _remote_source.  A FlyteFile made by the constructor has it unset;
\* __fspath__, trigger_download and to_literal never set or change it; it is
\* set only on the FlyteFile that to_python_value returns for a remote uri,
\* and there it equals that uri.
C17_RemoteSourceProvenance ==
    /\ [](ff # NoneV /\ ff._remote_source # NoneV
            => /\ is_remote(ff._remote_source)
               /\ ff._downloader.tag = "_downloader"
               /\ ff._downloader.uri = ff._remote_source)
    /\ [][/\ op'.name = "__init__" => ff'._remote_source = NoneV
          /\ (op'.name \in {"__fspath__", "trigger_download", "to_literal"} /\ ff # NoneV)
                => /\ ff' # NoneV
                   /\ ff'._remote_source = ff._remote_source
          /\ (op'.name = "to_python_value" /\ ~Raised(ret')
                /\ ret'.value.tag = "FlyteFile")
                => /\ ff' = ret'.value
                   /\ ff'._remote_source =
                         (IF is_remote(op'.lv.uri) THEN op'.lv.uri ELSE NoneV)]_vars

\* C17 witness: a decoded remote file keeps its _remote_source through a
\* trigger_download, two __fspath__ calls and a to_literal.
C17_Witness ==
    /\ ff # NoneV /\ ff._remote_source = S3Uri
    /\ hist.fspath = 2 /\ hist.trigger = 1
    /\ op.name = "to_literal" /\ op.python_val = ff

\* C20: when the downloader raises during __fspath__, the exception reaches
\* the caller and _downloaded stays False, so the next __fspath__ invokes the
\* downloader again; _downloaded becomes True only in an __fspath__ in which
\* the downloader was invoked and returned normally.
C20_FailedDownloadRetried ==
    /\ [](ff # NoneV /\ ff._downloaded => hist.invoked > hist.raised)
    /\ [][(op'.name = "__fspath__" /\ hist'.fspath = hist.fspath + 1)
          => /\ Raised(ret') => /\ ff' = ff
                                /\ ~ff'._downloaded
                                /\ hist'.raised = hist.raised + 1
             /\ ~ff._downloaded => Invocations(calls') = <<Call(ff._downloader)>>
             /\ (ff'._downloaded /\ ~ff._downloaded)
                   => /\ ~Raised(ret')
                      /\ Invocations(calls') = <<Call(ff._downloader)>>]_vars

\* C20 witness: the first __fspath__ raised, the second invoked the
\* downloader again and succeeded.
C20_Witness ==
    /\ ff # NoneV /\ op.name = "__fspath__"
    /\ hist.fspath = 2 /\ hist.raised = 1 /\ hist.invoked = 2
    /\ ff._downloaded /\ ~Raised(ret)
    /\ Invocations(calls) = <<Call(ff._downloader)>>

\* ------------------------------------------------ concurrent first dereference
InvokedBy == {t \in Threads : threads[t].invoked}
NoAssignmentYet == \A u \in Threads : ~threads[u].assigned

\* C16: __fspath__ is not thread-safe.  The check of _downloaded (line 183)
\* and its assignment (line 185) are separate steps with nothing to keep
\* another thread out in between: every thread whose check runs before any
\* thread has made the assignment goes on to invoke the downloader, also when
\* another thread is already past its own check.  The downloader is invoked
\* once per such thread, so two threads in a first dereference can invoke it
\* twice.
C16_NotThreadSafe ==
    /\ [](hist.invoked = Cardinality(InvokedBy))
    /\ [][\A t \in Threads :
            (threads[t].pc = "183" /\ threads'[t].pc # "183" /\ NoAssignmentYet)
               => threads'[t].pc = "184"]_vars

\* C16 witness: two threads have dereferenced the same instance, neither had
\* dereferenced it before, and the downloader has been invoked twice.
C16_Witness ==
    /\ ff # NoneV /\ ff._downloaded /\ ff._downloader.tag = "_downloader"
    /\ \A t \in {1, 2} : threads[t].pc = "returned" /\ threads[t].invoked
    /\ hist.invoked >= 2 /\ hist.raised = 0

====
